---- MODULE Spec2Model ----
(***************************************************************************)
(* Model of the KV/1.0 key-value store server (src/server/main.go).        *)
(*                                                                         *)
(* One listener accepts connections and spawns one handler goroutine per   *)
(* connection.  A handler is a sequential process; its steps are cut at    *)
(* the points where it takes or waits for one of the two locks             *)
(* (store.mu, an RWMutex, and server.statsMu, a Mutex), so that every      *)
(* interleaving of handlers at lock granularity is explored.               *)
(*                                                                         *)
(* A line on the wire is a sequence of pieces: tokens (strings without     *)
(* whitespace), the blank " ", "\r" and the terminating "\n".              *)
(***************************************************************************)
EXTENDS Integers, Sequences, FiniteSets, TLC

\* ---------------------------------------------------------------- bounds

\* Number of connections the listener accepts.
MaxConns == 2

\* Total number of lines the clients send, over all connections.
MaxLines == 3

\* Lines in flight (sent, not yet read by a handler), over all connections.
MaxPipe == 1

\* The same two bounds where one client sends every line of the protocol.
ParseLines == 2

ParsePipe == 2

\* The same two bounds where concurrent clients also send blank lines,
\* QUIT and an unknown command.
ConnLines == 3

ConnPipe == 2

\* Total number of lines sent where progress is checked.
FairLines == 2

\* ------------------------------------------------------------- constants

Version == "KV/1.0"

Conns == 1..MaxConns

Keys == {"k1", "k2"}

Vals == {"v1", "v2"}

\* A key that is not in the map.
Absent == "<absent>"

\* What a read racing with a write of the map may return besides a value.
Torn == "<torn>"

SP == " "

CR == "\r"

LF == "\n"

\* ------------------------------------------------------- wire: the lines

RECURSIVE Join(_)
\* The tokens separated by single blanks.
Join(toks) ==
    IF Len(toks) = 0 THEN <<>>
    ELSE IF Len(toks) = 1 THEN <<toks[1]>>
    ELSE <<toks[1], SP>> \o Join(Tail(toks))

\* A request line as a client writes it: the tokens, then the newline.
MkLine(toks) == Join(toks) \o <<LF>>

\* Token sequences the clients send: every command, well formed and not.
StoreToks ==
    {<<Version, "PUT", k, v>> : k \in Keys, v \in Vals}
    \cup {<<Version, "GET", k>> : k \in Keys}
    \cup {<<Version, "DEL", k>> : k \in Keys}
    \cup {<<Version, "STATS">>}

GoodToks ==
    StoreToks
    \cup {<<Version, "QUIT">>, <<Version, "quit">>, <<Version, "get", "k1">>}

BadToks ==
    { <<"KV/0.9", "PUT", "k1", "v1">>, <<"KV/0.9", "DEL", "k1">>,
      <<"KV/0.9", "QUIT">>, <<"KV/0.9", "FOO">>, <<"KV/0.9">>,
      <<"KV/0.9", "PUT", "k1">>,
      <<Version, "PUT">>, <<Version, "PUT", "k1">>,
      <<Version, "PUT", "k1", "v1", "x">>,
      <<Version, "GET">>, <<Version, "GET", "k1", "x">>,
      <<Version, "DEL">>, <<Version, "DEL", "k1", "x">>,
      <<Version, "STATS", "x">>, <<Version, "QUIT", "x">>,
      <<Version, "FOO">>, <<Version>> }

\* The lines a client may send: the above, a CRLF-terminated request, an
\* empty an empty CRLF line and a line holding only a blank.
Lines ==
    {MkLine(t) : t \in GoodToks \cup BadToks}
    \cup { <<Version, SP, "GET", SP, "k2", CR, LF>>, <<LF>>, <<CR, LF>>, <<SP, LF>> }

\* The lines concurrent clients send: the commands that reach the store.
StoreLines == {MkLine(t) : t \in StoreToks}

\* The lines of clients that come and go: commands on one key, QUIT, an
\* unknown command, and the lines with nothing or only a blank in them.
LifeLines ==
    {MkLine(t) : t \in {<<Version, "PUT", "k1", "v1">>, <<Version, "GET", "k1">>,
                        <<Version, "DEL", "k1">>, <<Version, "STATS">>,
                        <<Version, "QUIT">>, <<Version, "FOO">>}}
    \cup { <<LF>>, <<CR, LF>>, <<SP, LF>> }

\* ------------------------------------------------ parsing (handleConn)

Whitespace == {SP, CR, LF}

RECURSIVE TrimSpace(_)
\* strings.TrimSpace in its place: trailing blanks go as well.
TrimSpace(line) ==
    IF Len(line) > 0 /\ line[Len(line)] \in {CR, LF, SP}
    THEN TrimSpace(SubSeq(line, 1, Len(line) - 1))
    ELSE line

RECURSIVE TrimRight(_)
\* strings.TrimRight(line, "\r\n"): every trailing "\r" and "\n" removed.
TrimRight(line) ==
    IF Len(line) > 0 /\ line[Len(line)] \in {CR, LF}
    THEN TrimRight(SubSeq(line, 1, Len(line) - 1))
    ELSE line

IsToken(p) == p \notin Whitespace

\* strings.Fields(line): the maximal runs of non-whitespace.  The lines
\* sent keep a whitespace piece between two tokens, so a run is one piece.
Fields(line) == SelectSeq(line, IsToken)

\* strings.ToUpper on the words the clients send.
ToUpper(t) ==
    CASE t = "put" -> "PUT"
      [] t = "get" -> "GET"
      [] t = "del" -> "DEL"
      [] t = "stats" -> "STATS"
      [] t = "quit" -> "QUIT"
      [] t = "k1" -> "K1"
      [] t = "k2" -> "K2"
      [] t = "x" -> "X"
      [] OTHER -> t

\* The version looked at first: a lone token that is a wrong version is
\* passed on to the version test.
VersionFirst(toks) == Len(toks) >= 2 \/ (Len(toks) = 1 /\ toks[1] # Version)

\* len(toks) < 2 is refused.
EnoughTokens(toks) == Len(toks) >= 2

\* Any KV/ version accepted.
VersionPrefix(toks) == toks[1] \in {"KV/1.0", "KV/0.9"}

\* toks[0] != Version is refused.
VersionOK(toks) == toks[1] = Version

\* A PUT refused for its arity only when it has no key.
PutArityLoose(toks) == ~(Len(toks) < 3)

\* The arity test of each case of the switch: TRUE when the case goes on.
PutArityOK(toks) == ~(Len(toks) < 4)

GetArityOK(toks) == ~(Len(toks) # 3)

DelArityOK(toks) == ~(Len(toks) # 3)

StatsArityOK(toks) == ~(Len(toks) # 2)

\* cmd := strings.ToUpper(toks[1])
Cmd(toks) == ToUpper(toks[2])

\* ------------------------------------------------------------ responses

NoStats ==
    [total_conns |-> -1, active_conns |-> -1, req_count |-> -1,
     put_count |-> -1, get_count |-> -1, del_count |-> -1, keys |-> -1]

\* A response line: its status words, the value of a GET hit and the
\* counters of a STATS reply.
Resp(status) == [status |-> status, val |-> "", st |-> NoStats]

RespVal(v) == [status |-> "200 OK", val |-> v, st |-> NoStats]

RespStats(s) == [status |-> "200 OK", val |-> "", st |-> s]

BadRequest == Resp("400 BAD_REQUEST")

UpgradeRequired == Resp("426 UPGRADE_REQUIRED")

Created == Resp("201 CREATED")

Ok == Resp("200 OK")

NotFound == Resp("404 NOT_FOUND")

NoContent == Resp("204 NO_CONTENT")

Bye == RespVal("bye")

\* The QUIT case leaving without the deferred function being run.
AfterQuitNoDefer == "closed"

\* The QUIT case going on with the loop.
AfterQuitContinue == "read"

\* The QUIT case ends in `return`: the handler leaves the loop and runs
\* its deferred function.
AfterQuit == "defer"

\* Where handleConn goes after the tokens are split, and what it answers
\* at once (nothing when the command runs first); next is where it goes on.
Dispatch(toks) ==
    IF ~EnoughTokens(toks) THEN [resp |-> <<BadRequest>>, next |-> "read"]
    ELSE IF ~VersionOK(toks) THEN [resp |-> <<UpgradeRequired>>, next |-> "read"]
    ELSE CASE Cmd(toks) = "PUT" ->
                IF ~PutArityOK(toks) THEN [resp |-> <<BadRequest>>, next |-> "read"]
                ELSE [resp |-> <<>>, next |-> "putLock"]
           [] Cmd(toks) = "GET" ->
                IF ~GetArityOK(toks) THEN [resp |-> <<BadRequest>>, next |-> "read"]
                ELSE [resp |-> <<>>, next |-> "getRLock"]
           [] Cmd(toks) = "DEL" ->
                IF ~DelArityOK(toks) THEN [resp |-> <<BadRequest>>, next |-> "read"]
                ELSE [resp |-> <<>>, next |-> "delLock"]
           [] Cmd(toks) = "STATS" ->
                IF ~StatsArityOK(toks) THEN [resp |-> <<BadRequest>>, next |-> "read"]
                ELSE [resp |-> <<>>, next |-> "ssLock"]
           [] Cmd(toks) = "QUIT" ->
                [resp |-> <<Bye>>, next |-> AfterQuit]
           [] OTHER -> [resp |-> <<BadRequest>>, next |-> "read"]

\* ---------------------------------------------------------------- state

VARIABLES
    data,        \* store.data: key -> value, Absent for a key not in the map
    mu,          \* store.mu: [w: handlers holding Lock, r: handlers holding RLock]
    statsMu,     \* server.statsMu: the handlers holding it
    stats,       \* server.stats: the six counters
    pc,          \* each handler's position in handleConn
    inbuf,       \* per connection: lines sent by the client, not yet read
    peerClosed,  \* per connection: the client has closed its side
    toks,        \* per handler: the tokens of the line being handled
    found,       \* per handler: existed / ok of the store call under way
    val,         \* per handler: the value store.get returned
    snap,        \* per handler: the counters snapshotStats has read so far
    out,         \* per connection: the response lines handed to c.Write
    nsent,       \* lines sent so far, over all connections
    reqs,        \* history, per connection: the tokens of each line counted
    hist,        \* history, per key: the values of the latest PUTs answered
    clean,       \* history, per handler: no write of its key overlapped it
    wfail        \* history, per connection: a c.Write to it has failed

vars ==
    <<data, mu, statsMu, stats, pc, inbuf, peerClosed, toks, found, val,
      snap, out, nsent, reqs, hist, clean, wfail>>

ZeroStats ==
    [TotalConns |-> 0, ActiveConns |-> 0, ReqCount |-> 0,
     PutCount |-> 0, GetCount |-> 0, DelCount |-> 0]

\* newServer: an empty map, zero counters, no connection yet.
Init ==
    /\ data = [k \in Keys |-> Absent]
    /\ mu = [w |-> {}, r |-> {}]
    /\ statsMu = {}
    /\ stats = ZeroStats
    /\ pc = [c \in Conns |-> "unborn"]
    /\ inbuf = [c \in Conns |-> <<>>]
    /\ peerClosed = [c \in Conns |-> FALSE]
    /\ toks = [c \in Conns |-> <<>>]
    /\ found = [c \in Conns |-> FALSE]
    /\ val = [c \in Conns |-> ""]
    /\ snap = [c \in Conns |-> NoStats]
    /\ out = [c \in Conns |-> <<>>]
    /\ nsent = 0
    /\ reqs = [c \in Conns |-> <<>>]
    /\ hist = [k \in Keys |-> <<>>]
    /\ clean = [c \in Conns |-> FALSE]
    /\ wfail = [c \in Conns |-> FALSE]

\* len(s.data)
Size(d) == Cardinality({k \in Keys : d[k] # Absent})

\* ---------------------------------------------------------------- locks

\* A write lock that waits for nobody.
CanLockAlways(c) == TRUE

\* sync.RWMutex.Lock returns when no handler holds the lock in either mode.
CanLock(c) == mu.w = {} /\ mu.r = {}

\* A read lock that does not wait for the writer.
CanRLockAlways(c) == TRUE

\* sync.RWMutex.RLock returns when no handler holds the write lock.
CanRLock(c) == mu.w = {}

\* A statistics mutex that waits for nobody.
CanLockStatsAlways(c) == TRUE

\* sync.Mutex.Lock on statsMu returns when no handler holds it.
CanLockStats(c) == statsMu = {}

\* A read of the map.  Under the lock it returns the entry; a read that
\* races with a writer (a data race) may return anything.
MapRead(c, k) ==
    IF mu.w \ {c} # {} THEN Vals \cup {Absent, Torn} ELSE {data[k]}

\* len(s.data) read by size(); racing with a writer it may be any count.
MapLen(c) ==
    IF mu.w \ {c} # {} THEN 0..Cardinality(Keys) ELSE {Size(data)}

\* A map that keeps the entry a key already has.
MapWriteIfAbsent(c, k, v) ==
    IF data[k] # Absent /\ v # Absent THEN {data} ELSE {[data EXCEPT ![k] = v]}

\* A map that never loses an entry.
MapWriteNoDelete(c, k, v) ==
    IF v = Absent THEN {data} ELSE {[data EXCEPT ![k] = v]}

\* The maps a write of k := v (Absent: delete) may leave.  Under the lock,
\* the map with that entry changed; racing with another holder of the
\* lock, the write may also be lost.
MapWrite(c, k, v) ==
    IF mu.w \ {c} # {} \/ mu.r # {}
    THEN {[data EXCEPT ![k] = v], data}
    ELSE {[data EXCEPT ![k] = v]}

\* A PUT counted in GetCount.
IncrPutAsGet(field, delta) ==
    [stats EXCEPT ![IF field = "PutCount" THEN "GetCount" ELSE field] = @ + delta]

\* A counter moved by twice the delta.
IncrTwice(field, delta) == [stats EXCEPT ![field] = @ + 2 * delta]

\* A GET hit counted in PutCount.
IncrSwapped(field, delta) ==
    [stats EXCEPT ![IF field = "GetCount" THEN "PutCount" ELSE field] = @ + delta]

\* sv.incr(field, delta): statsMu.Lock, add, Unlock.
Incr(field, delta) == [stats EXCEPT ![field] = @ + delta]

\* sv.writeResp(c, s): one response line written to the connection.
WriteResp(c, rs) == [out EXCEPT ![c] = @ \o rs]

\* The errors c.Write may return: none while the peer is there; once the
\* peer has closed, the write may still pass or fail.
WriteFails(c) == IF peerClosed[c] THEN {FALSE, TRUE} ELSE {FALSE}

\* writeResp drops what c.Write returns (`_, _ =`): a failed write leaves
\* no trace in the handler.  The history keeps it.
WriteErr(c, rs) ==
    IF rs = <<>> THEN UNCHANGED wfail
    ELSE \E e \in WriteFails(c) : wfail' = [wfail EXCEPT ![c] = @ \/ e]

\* The key and the value of the request under way.
Key(c) == toks[c][3]

Value(c) == toks[c][4]

\* ------------------------------------------------------------- clients

RECURSIVE Unread(_)
\* The number of lines sent and not yet read, over the connections 1..n.
Unread(n) == IF n = 0 THEN 0 ELSE Len(inbuf[n]) + Unread(n - 1)

\* A client writes one line to its connection (client: conn.Write), while
\* fewer than `pipe` lines are unread and fewer than `n` lines were sent.
ClientSend(c, l, pipe, n) ==
    /\ pc[c] \notin {"unborn", "closed"}
    /\ ~peerClosed[c]
    /\ Unread(MaxConns) < pipe
    /\ nsent < n
    /\ inbuf' = [inbuf EXCEPT ![c] = Append(@, l)]
    /\ nsent' = nsent + 1
    /\ UNCHANGED <<data, mu, statsMu, stats, pc, peerClosed, toks, found,
                   val, snap, out, reqs, hist, clean, wfail>>

\* A client closes its connection (client: conn.Close, os.Exit).
ClientClose(c) ==
    /\ pc[c] \notin {"unborn", "closed"}
    /\ ~peerClosed[c]
    /\ peerClosed' = [peerClosed EXCEPT ![c] = TRUE]
    /\ UNCHANGED <<data, mu, statsMu, stats, pc, inbuf, toks, found, val,
                   snap, out, nsent, reqs, hist, clean, wfail>>

\* ------------------------------------------------------------ listener

\* run: ln.Accept returns a connection and `go sv.handleConn(conn)` spawns
\* its handler; the listener goes back to Accept.
Accept(c) ==
    /\ pc[c] = "unborn"
    /\ \A d \in Conns : d < c => pc[d] # "unborn"
    /\ pc' = [pc EXCEPT ![c] = "incTotal"]
    /\ UNCHANGED <<data, mu, statsMu, stats, inbuf, peerClosed, toks,
                   found, val, snap, out, nsent, reqs, hist, clean, wfail>>

\* ------------------------------------------------------------- handler

\* What a handler step leaves alone besides what it names.
Local(c) == UNCHANGED <<inbuf, peerClosed, nsent>>

\* The positions of a handler inside a PUT or DEL, and inside any request
\* that names a key.
WritePcs == {"putLock", "putWrite", "putIncr", "delLock", "delWrite", "delIncr"}

KeyPcs == WritePcs \cup {"getRLock", "getRead", "getIncr"}

\* The handlers with a request on key k under way, and those writing it.
InFlightOn(k) == {d \in Conns : pc[d] \in KeyPcs /\ toks[d][3] = k}

WritersOn(k) == {d \in Conns : pc[d] \in WritePcs /\ toks[d][3] = k}

\* The last two elements of a sequence.
LastTwo(q) == IF Len(q) > 2 THEN SubSeq(q, Len(q) - 1, Len(q)) ELSE q

\* History kept when handler c starts the request t, going on at `next`:
\* a request is clean while no write of its key overlaps it, and the
\* record of answered PUTs of a key is dropped when a DEL or overlapping
\* writes of the key start.
Begin(c, t, next) ==
    IF next \notin KeyPcs
    THEN UNCHANGED <<hist, clean>>
    ELSE LET k == t[3]
             w == next \in WritePcs
         IN /\ clean' = [d \in Conns |->
                          IF d = c THEN WritersOn(k) = {}
                          ELSE IF w /\ d \in InFlightOn(k) THEN FALSE
                          ELSE clean[d]]
            /\ hist' = IF w /\ (next = "delLock" \/ WritersOn(k) # {})
                       THEN [hist EXCEPT ![k] = <<>>]
                       ELSE hist

\* The request is done: the handler goes to `next`, its locals dead.
Finish(c, next) ==
    /\ pc' = [pc EXCEPT ![c] = next]
    /\ toks' = [toks EXCEPT ![c] = <<>>]
    /\ found' = [found EXCEPT ![c] = FALSE]
    /\ val' = [val EXCEPT ![c] = ""]
    /\ snap' = [snap EXCEPT ![c] = NoStats]
    /\ clean' = [clean EXCEPT ![c] = FALSE]

\* sv.incr(&sv.stats.TotalConns, 1)
IncrTotal(c) ==
    /\ pc[c] = "incTotal"
    /\ CanLockStats(c)
    /\ stats' = Incr("TotalConns", 1)
    /\ pc' = [pc EXCEPT ![c] = "incActive"]
    /\ UNCHANGED <<data, mu, statsMu, inbuf, peerClosed, toks, found, val,
                   snap, out, nsent, reqs, hist, clean, wfail>>

\* sv.incr(&sv.stats.ActiveConns, 1)
IncrActive(c) ==
    /\ pc[c] = "incActive"
    /\ CanLockStats(c)
    /\ stats' = Incr("ActiveConns", 1)
    /\ pc' = [pc EXCEPT ![c] = "read"]
    /\ UNCHANGED <<data, mu, statsMu, inbuf, peerClosed, toks, found, val,
                   snap, out, nsent, reqs, hist, clean, wfail>>

\* One turn of the read loop with a line to read: r.ReadString('\n'),
\* the line trimmed; an empty one is skipped; any other is counted
\* (sv.incr(&sv.stats.ReqCount, 1)) and parsed: tokens, version, command
\* and arity.  A refused line and QUIT are answered here.
ReadLine(c) ==
    /\ pc[c] = "read"
    /\ inbuf[c] # <<>>
    /\ inbuf' = [inbuf EXCEPT ![c] = Tail(@)]
    /\ LET l == TrimRight(Head(inbuf[c]))
           t == Fields(l)
           d == Dispatch(t)
       IN IF l = <<>>
          THEN UNCHANGED <<stats, pc, toks, found, val, snap, out, reqs, hist,
                           clean, wfail>>
          ELSE /\ CanLockStats(c)
               /\ stats' = Incr("ReqCount", 1)
               /\ out' = WriteResp(c, d.resp)
               /\ WriteErr(c, d.resp)
               /\ reqs' = [reqs EXCEPT ![c] = Append(@, t)]
               /\ IF d.next \in {"read", "defer"}
                  THEN Finish(c, d.next) /\ UNCHANGED hist
                  ELSE /\ pc' = [pc EXCEPT ![c] = d.next]
                       /\ toks' = [toks EXCEPT ![c] = t]
                       /\ Begin(c, t, d.next)
                       /\ UNCHANGED <<found, val, snap>>
    /\ UNCHANGED <<data, mu, statsMu, peerClosed, nsent>>

\* r.ReadString('\n') fails: nothing left to read and the peer is gone.
\* The handler returns, which runs the deferred function.
ReadErr(c) ==
    /\ pc[c] = "read"
    /\ inbuf[c] = <<>>
    /\ peerClosed[c]
    /\ pc' = [pc EXCEPT ![c] = "defer"]
    /\ UNCHANGED <<data, mu, statsMu, stats, inbuf, peerClosed, toks,
                   found, val, snap, out, nsent, reqs, hist, clean, wfail>>

\* store.put, to the test of the key: s.mu.Lock(); _, existed := s.data[k]
PutLock(c) ==
    /\ pc[c] = "putLock"
    /\ CanLock(c)
    /\ mu' = [mu EXCEPT !.w = @ \cup {c}]
    /\ \E e \in MapRead(c, Key(c)) : found' = [found EXCEPT ![c] = (e # Absent)]
    /\ pc' = [pc EXCEPT ![c] = "putWrite"]
    /\ UNCHANGED <<data, statsMu, stats, toks, val, snap, out, reqs, hist, clean, wfail>>
    /\ Local(c)

\* The test of the key returned as it is.
PutResultExisted(existed) == existed

\* return !existed
PutResult(existed) == ~existed

\* store.put returning with the lock still held.
PutWriteKeepLock(c) ==
    /\ pc[c] = "putWrite"
    /\ data' \in MapWrite(c, Key(c), Value(c))
    /\ found' = [found EXCEPT ![c] = PutResult(found[c])]
    /\ pc' = [pc EXCEPT ![c] = "putIncr"]
    /\ UNCHANGED <<mu, statsMu, stats, toks, val, snap, out, reqs, hist, clean,
                   wfail>>
    /\ Local(c)

\* store.put, the rest: s.data[k] = v; return !existed; s.mu.Unlock()
PutWrite(c) ==
    /\ pc[c] = "putWrite"
    /\ data' \in MapWrite(c, Key(c), Value(c))
    /\ mu' = [mu EXCEPT !.w = @ \ {c}]
    /\ found' = [found EXCEPT ![c] = PutResult(found[c])]
    /\ pc' = [pc EXCEPT ![c] = "putIncr"]
    /\ UNCHANGED <<statsMu, stats, toks, val, snap, out, reqs, hist, clean, wfail>>
    /\ Local(c)

\* The PUT case after store.put: PutCount is counted, then the answer.
PutIncr(c) ==
    /\ pc[c] = "putIncr"
    /\ CanLockStats(c)
    /\ stats' = Incr("PutCount", 1)
    /\ out' = WriteResp(c, IF found[c] THEN <<Created>> ELSE <<Ok>>)
    /\ WriteErr(c, <<Ok>>)
    /\ hist' = [hist EXCEPT ![Key(c)] =
                  IF clean[c] THEN LastTwo(Append(@, Value(c))) ELSE <<>>]
    /\ Finish(c, "read")
    /\ UNCHANGED <<data, mu, statsMu, reqs>>
    /\ Local(c)

\* store.get, the lock: s.mu.RLock()
GetRLock(c) ==
    /\ pc[c] = "getRLock"
    /\ CanRLock(c)
    /\ mu' = [mu EXCEPT !.r = @ \cup {c}]
    /\ pc' = [pc EXCEPT ![c] = "getRead"]
    /\ UNCHANGED <<data, statsMu, stats, toks, found, val, snap, out, reqs, hist,
                   clean, wfail>>
    /\ Local(c)

\* store.get, the rest: v, ok := s.data[k]; s.mu.RUnlock().  A miss is
\* answered at once; a hit goes on to be counted.
GetRead(c) ==
    /\ pc[c] = "getRead"
    /\ mu' = [mu EXCEPT !.r = @ \ {c}]
    /\ \E v \in MapRead(c, Key(c)) :
         IF v # Absent
         THEN /\ val' = [val EXCEPT ![c] = v]
              /\ found' = [found EXCEPT ![c] = TRUE]
              /\ pc' = [pc EXCEPT ![c] = "getIncr"]
              /\ UNCHANGED <<toks, snap, out, clean, wfail>>
         ELSE /\ out' = WriteResp(c, <<NotFound>>)
              /\ WriteErr(c, <<NotFound>>)
              /\ Finish(c, "read")
    /\ UNCHANGED <<data, statsMu, stats, reqs, hist>>
    /\ Local(c)

\* The GET case on a hit: GetCount is counted, then the value is answered.
GetIncr(c) ==
    /\ pc[c] = "getIncr"
    /\ CanLockStats(c)
    /\ stats' = Incr("GetCount", 1)
    /\ out' = WriteResp(c, <<RespVal(val[c])>>)
    /\ WriteErr(c, <<RespVal(val[c])>>)
    /\ Finish(c, "read")
    /\ UNCHANGED <<data, mu, statsMu, reqs, hist>>
    /\ Local(c)

\* store.del, to the test of the key: s.mu.Lock(); _, ok := s.data[k]
DelLock(c) ==
    /\ pc[c] = "delLock"
    /\ CanLock(c)
    /\ mu' = [mu EXCEPT !.w = @ \cup {c}]
    /\ \E e \in MapRead(c, Key(c)) : found' = [found EXCEPT ![c] = (e # Absent)]
    /\ pc' = [pc EXCEPT ![c] = "delWrite"]
    /\ UNCHANGED <<data, statsMu, stats, toks, val, snap, out, reqs, hist, clean, wfail>>
    /\ Local(c)

\* store.del, the rest: delete(s.data, k) if ok; s.mu.Unlock().  A miss is
\* answered at once; a hit goes on to be counted.
DelWrite(c) ==
    /\ pc[c] = "delWrite"
    /\ mu' = [mu EXCEPT !.w = @ \ {c}]
    /\ IF found[c]
       THEN /\ data' \in MapWrite(c, Key(c), Absent)
            /\ pc' = [pc EXCEPT ![c] = "delIncr"]
            /\ UNCHANGED <<toks, found, val, snap, out, clean, wfail>>
       ELSE /\ out' = WriteResp(c, <<NotFound>>)
            /\ WriteErr(c, <<NotFound>>)
            /\ Finish(c, "read")
            /\ UNCHANGED data
    /\ UNCHANGED <<statsMu, stats, reqs, hist>>
    /\ Local(c)

\* The DEL case on a hit: DelCount is counted, then the answer.
DelIncr(c) ==
    /\ pc[c] = "delIncr"
    /\ CanLockStats(c)
    /\ stats' = Incr("DelCount", 1)
    /\ out' = WriteResp(c, <<NoContent>>)
    /\ WriteErr(c, <<NoContent>>)
    /\ Finish(c, "read")
    /\ UNCHANGED <<data, mu, statsMu, reqs, hist>>
    /\ Local(c)

\* snapshotStats, first half: sv.statsMu.Lock(), then total_conns,
\* active_conns and req_count are read.
SsLock(c) ==
    /\ pc[c] = "ssLock"
    /\ CanLockStats(c)
    /\ statsMu' = statsMu \cup {c}
    /\ snap' = [snap EXCEPT ![c] =
                  [@ EXCEPT !.total_conns = stats.TotalConns,
                            !.active_conns = stats.ActiveConns,
                            !.req_count = stats.ReqCount]]
    /\ pc' = [pc EXCEPT ![c] = "ssRead"]
    /\ UNCHANGED <<data, mu, stats, toks, found, val, out, reqs, hist, clean, wfail>>
    /\ Local(c)

\* snapshotStats, second half: put_count, get_count and del_count are read.
SsRead(c) ==
    /\ pc[c] = "ssRead"
    /\ snap' = [snap EXCEPT ![c] =
                  [@ EXCEPT !.put_count = stats.PutCount,
                            !.get_count = stats.GetCount,
                            !.del_count = stats.DelCount]]
    /\ pc' = [pc EXCEPT ![c] = "ssRLock"]
    /\ UNCHANGED <<data, mu, statsMu, stats, toks, found, val, out, reqs, hist,
                   clean, wfail>>
    /\ Local(c)

\* snapshotStats calls sv.store.size(): s.mu.RLock(), statsMu still held.
SsRLock(c) ==
    /\ pc[c] = "ssRLock"
    /\ CanRLock(c)
    /\ mu' = [mu EXCEPT !.r = @ \cup {c}]
    /\ pc' = [pc EXCEPT ![c] = "ssSize"]
    /\ UNCHANGED <<data, statsMu, stats, toks, found, val, snap, out, reqs, hist,
                   clean, wfail>>
    /\ Local(c)

\* size() returns len(s.data) and unlocks; snapshotStats returns, which
\* unlocks statsMu; the STATS case answers with the counters.
SsSize(c) ==
    /\ pc[c] = "ssSize"
    /\ mu' = [mu EXCEPT !.r = @ \ {c}]
    /\ statsMu' = statsMu \ {c}
    /\ \E n \in MapLen(c) :
         out' = WriteResp(c, <<RespStats([snap[c] EXCEPT !.keys = n])>>)
    /\ WriteErr(c, <<Ok>>)
    /\ Finish(c, "read")
    /\ UNCHANGED <<data, stats, reqs, hist>>
    /\ Local(c)

\* The deferred function taking the connection off total_conns.
DeferCounterTotal == "TotalConns"

\* The counter the deferred function decrements: &sv.stats.ActiveConns
DeferCounter == "ActiveConns"

\* The deferred function: sv.incr(&sv.stats.ActiveConns, -1); c.Close()
Defer(c) ==
    /\ pc[c] = "defer"
    /\ CanLockStats(c)
    /\ stats' = Incr(DeferCounter, -1)
    /\ pc' = [pc EXCEPT ![c] = "closed"]
    /\ UNCHANGED <<data, mu, statsMu, inbuf, peerClosed, toks, found, val,
                   snap, out, nsent, reqs, hist, clean, wfail>>

\* A step of a client that closes, or of a handler.
Handlers ==
    \/ \E c \in Conns : ClientClose(c)
    \/ \E c \in Conns : IncrTotal(c)
    \/ \E c \in Conns : IncrActive(c)
    \/ \E c \in Conns : ReadLine(c)
    \/ \E c \in Conns : ReadErr(c)
    \/ \E c \in Conns : PutLock(c)
    \/ \E c \in Conns : PutWrite(c)
    \/ \E c \in Conns : PutIncr(c)
    \/ \E c \in Conns : GetRLock(c)
    \/ \E c \in Conns : GetRead(c)
    \/ \E c \in Conns : GetIncr(c)
    \/ \E c \in Conns : DelLock(c)
    \/ \E c \in Conns : DelWrite(c)
    \/ \E c \in Conns : DelIncr(c)
    \/ \E c \in Conns : SsLock(c)
    \/ \E c \in Conns : SsRead(c)
    \/ \E c \in Conns : SsRLock(c)
    \/ \E c \in Conns : SsSize(c)
    \/ \E c \in Conns : Defer(c)

\* Concurrent clients: every connection is accepted, and the clients send
\* the commands that reach the store.
Next ==
    \/ \E c \in Conns : \E l \in StoreLines : ClientSend(c, l, MaxPipe, MaxLines)
    \/ \E c \in Conns : Accept(c)
    \/ Handlers

Spec == Init /\ [][Next]_vars

\* One client: the first connection only, sending any line of the protocol,
\* refused ones included, and pipelining them.
NextParse ==
    \/ \E l \in Lines : ClientSend(1, l, ParsePipe, ParseLines)
    \/ Accept(1)
    \/ Handlers

SpecParse == Init /\ [][NextParse]_vars

\* Clients that come and go: every connection is accepted, and the clients
\* send commands, QUIT, unknown commands and blank lines, pipelining them.
NextConn ==
    \/ \E c \in Conns : \E l \in LifeLines : ClientSend(c, l, ConnPipe, ConnLines)
    \/ \E c \in Conns : Accept(c)
    \/ Handlers

SpecConn == Init /\ [][NextConn]_vars

\* The steps of the handler goroutine of connection c.
Run(c) ==
    \/ IncrTotal(c) \/ IncrActive(c) \/ ReadLine(c) \/ ReadErr(c)
    \/ PutLock(c) \/ PutWrite(c) \/ PutIncr(c)
    \/ GetRLock(c) \/ GetRead(c) \/ GetIncr(c)
    \/ DelLock(c) \/ DelWrite(c) \/ DelIncr(c)
    \/ SsLock(c) \/ SsRead(c) \/ SsRLock(c) \/ SsSize(c)
    \/ Defer(c)

\* Concurrent clients sending the commands that reach the store, a few
\* lines in all.
NextFair ==
    \/ \E c \in Conns : \E l \in StoreLines : ClientSend(c, l, MaxPipe, FairLines)
    \/ \E c \in Conns : Accept(c)
    \/ Handlers

\* The Go scheduler runs every goroutine that can run: a handler whose
\* next step stays possible takes it.
SpecFair == Init /\ [][NextFair]_vars /\ \A c \in Conns : WF_vars(Run(c))

\* ---------------------------------------------------------- properties

Last(q) == q[Len(q)]

\* In this step handler c writes one response line; the line.
Answers(c) == Len(out'[c]) = Len(out[c]) + 1

Answer(c) == out'[c][Len(out'[c])]

\* In this step handler c leaves position p.
Leaves(c, p) == pc[c] = p /\ pc'[c] # p

PutToks(k, v) == <<"KV/1.0", "PUT", k, v>>

GetToks(k) == <<"KV/1.0", "GET", k>>

DelToks(k) == <<"KV/1.0", "DEL", k>>

\* C1: last write wins.  A GET of k that no PUT or DEL of k overlaps, read
\* after a PUT(k, v) was answered that itself followed every earlier write
\* of k, is answered `200 OK v`: the value of the latest PUT answered,
\* whichever connections sent the requests.
C1_LastWriteWins ==
    [][\A c \in Conns :
         (/\ pc[c] \in {"getRead", "getIncr"}
          /\ clean[c]
          /\ hist[Key(c)] # <<>>
          /\ pc'[c] = "read")
         => Answers(c) /\ Answer(c) = RespVal(Last(hist[Key(c)]))]_vars

\* C1, reached: connection d was answered PUT(k, v1) then PUT(k, v2), and
\* the GET(k) of another connection, overlapped by no write, has read v2.
C1_Witness ==
    \E c, d \in Conns : \E k \in Keys :
        /\ c # d
        /\ reqs[d] = <<PutToks(k, "v1"), PutToks(k, "v2")>>
        /\ Len(out[d]) = 2
        /\ hist[k] = <<"v1", "v2">>
        /\ pc[c] = "getIncr" /\ clean[c] /\ Key(c) = k /\ val[c] = "v2"

\* C2: existence signalling.  The read of a GET answers `404 NOT_FOUND`
\* exactly when the key is not in the store at that moment, and a hit is
\* answered `200 OK`; the write of a PUT(k, v) leaves k mapped to v and is
\* answered `201 CREATED` exactly when k was not in the store at the moment
\* of the write, and `200 OK` otherwise.
C2_Existence ==
    [][\A c \in Conns :
         /\ Leaves(c, "getRead") =>
              IF data[Key(c)] = Absent
              THEN Answers(c) /\ Answer(c) = NotFound
              ELSE ~Answers(c) /\ pc'[c] = "getIncr"
         /\ Leaves(c, "getIncr") =>
              Answers(c) /\ Answer(c).status = "200 OK"
         /\ Leaves(c, "putWrite") =>
              /\ pc'[c] = "putIncr"
              /\ found'[c] = (data[Key(c)] = Absent)
              /\ data'[Key(c)] = Value(c)
         /\ Leaves(c, "putIncr") =>
              /\ Answers(c)
              /\ Answer(c) = IF found[c] THEN Resp("201 CREATED") ELSE Resp("200 OK")
      ]_vars

\* C2, reached: one connection was answered 404 to GET(k), 201 to PUT(k, v)
\* and 200 OK to a second PUT of k.
C2_Witness ==
    \E c \in Conns : \E k \in Keys : \E v, w \in Vals :
        /\ reqs[c] = <<GetToks(k), PutToks(k, v), PutToks(k, w)>>
        /\ out[c] = <<NotFound, Created, Ok>>
        /\ data[k] = w

\* C3: the delete of a DEL(k) on a key in the store removes exactly k (the
\* size drops by one, every other entry stays) and is answered
\* `204 NO_CONTENT`; on a key not in the store it changes nothing and is
\* answered `404 NOT_FOUND`.
C3_Delete ==
    [][\A c \in Conns :
         /\ Leaves(c, "delWrite") =>
              IF data[Key(c)] # Absent
              THEN /\ data' = [data EXCEPT ![Key(c)] = Absent]
                   /\ Size(data') = Size(data) - 1
                   /\ ~Answers(c) /\ pc'[c] = "delIncr"
              ELSE /\ data' = data
                   /\ Answers(c) /\ Answer(c) = NotFound
         /\ Leaves(c, "delIncr") =>
              Answers(c) /\ Answer(c) = Resp("204 NO_CONTENT") /\ data' = data
      ]_vars

\* C3, reached: one connection was answered 201 to PUT(k, v), 204 to
\* DEL(k) and 404 to a second DEL(k); the store is empty again.
C3_Witness ==
    \E c \in Conns : \E k \in Keys : \E v \in Vals :
        /\ reqs[c] = <<PutToks(k, v), DelToks(k), DelToks(k)>>
        /\ out[c] = <<Created, NoContent, NotFound>>
        /\ Size(data) = 0

\* The positions of a handler with no request under way.
IdlePcs == {"unborn", "incTotal", "incActive", "read", "defer", "closed"}

RECURSIVE CountOut(_, _)
\* The number of responses of the set R written so far, to connections 1..n.
CountOut(R, n) ==
    IF n = 0 THEN 0
    ELSE Cardinality({i \in 1..Len(out[n]) : out[n][i] \in R}) + CountOut(R, n - 1)

\* C4: a STATS reply written while no other request is under way reports
\* put_count = the PUTs answered 201 or 200 OK, get_count = the GETs
\* answered with a value, del_count = the DELs answered 204, and keys =
\* the number of keys in the store.
C4_ExactCounts ==
    [][\A c \in Conns :
         (Leaves(c, "ssSize") /\ \A d \in Conns \ {c} : pc[d] \in IdlePcs)
         => /\ Answers(c)
            /\ Answer(c).st.put_count = CountOut({Created, Ok}, MaxConns)
            /\ Answer(c).st.get_count = CountOut({RespVal(v) : v \in Vals}, MaxConns)
            /\ Answer(c).st.del_count = CountOut({NoContent}, MaxConns)
            /\ Answer(c).st.keys = Size(data)
      ]_vars

\* C4, reached: on its own, one connection was answered a PUT, a GET hit
\* and then STATS with put_count 1, get_count 1, del_count 0 and keys 1.
C4_Witness ==
    \E c \in Conns : \E k \in Keys : \E v \in Vals :
        /\ \A d \in Conns \ {c} : reqs[d] = <<>>
        /\ reqs[c] = <<PutToks(k, v), GetToks(k), <<"KV/1.0", "STATS">>>>
        /\ Len(out[c]) = 3
        /\ out[c][2] = RespVal(v)
        /\ out[c][3].st.put_count = 1
        /\ out[c][3].st.get_count = 1
        /\ out[c][3].st.del_count = 0
        /\ out[c][3].st.keys = 1

\* The tokens of a line as sent: its pieces other than blank, CR and LF.
WireTokens(l) == SelectSeq(l, LAMBDA p : p \notin {" ", "\r", "\n"})

\* In this step handler c reads the first unread line of its connection.
ReadStep(c) ==
    pc[c] = "read" /\ inbuf[c] # <<>> /\ inbuf'[c] = Tail(inbuf[c])

\* The tokens of that line.
ReadToks(c) == WireTokens(Head(inbuf[c]))

\* The line read is refused with response r: r is written, the store and
\* the three command counters stay, and the handler is back at the read
\* with the connection open.
Refused(c, r) ==
    /\ Answers(c) /\ Answer(c) = r
    /\ data' = data
    /\ stats'.PutCount = stats.PutCount
    /\ stats'.GetCount = stats.GetCount
    /\ stats'.DelCount = stats.DelCount
    /\ pc'[c] = "read"

\* C5: a line of at least 2 tokens whose first token is not exactly KV/1.0
\* is answered `426 UPGRADE_REQUIRED` and not executed: store, put_count,
\* get_count and del_count unchanged, connection open for the next line.
C5_WrongVersion ==
    [][\A c \in Conns :
         (ReadStep(c) /\ Len(ReadToks(c)) >= 2 /\ ReadToks(c)[1] # "KV/1.0")
         => Refused(c, Resp("426 UPGRADE_REQUIRED"))]_vars

\* C5, reached: `KV/0.9 PUT k1 v1` was answered 426 and the same PUT with
\* the right version, next on the connection, was answered 201: the key
\* was not stored by the first line.
C5_Witness ==
    /\ reqs[1] = <<<<"KV/0.9", "PUT", "k1", "v1">>, PutToks("k1", "v1")>>
    /\ out[1] = <<UpgradeRequired, Created>>

\* C6: a PUT line with the right version and fewer than 4 tokens is
\* answered `400 BAD_REQUEST`; store and put_count unchanged, connection
\* open.
C6_PutNoValue ==
    [][\A c \in Conns :
         (/\ ReadStep(c)
          /\ Len(ReadToks(c)) \in {2, 3}
          /\ ReadToks(c)[1] = "KV/1.0"
          /\ ReadToks(c)[2] \in {"PUT", "put"})
         => Refused(c, Resp("400 BAD_REQUEST"))]_vars

\* C6, reached: `KV/1.0 PUT k1` was answered 400 and the GET of k1, next
\* on the connection, was answered 404: nothing was stored.
C6_Witness ==
    /\ reqs[1] = <<<<"KV/1.0", "PUT", "k1">>, GetToks("k1")>>
    /\ out[1] = <<BadRequest, NotFound>>
    /\ Size(data) = 0

\* The command a token names, in either case.
CmdName(t) ==
    CASE t \in {"PUT", "put"} -> "PUT"
      [] t \in {"GET", "get"} -> "GET"
      [] t \in {"DEL", "del"} -> "DEL"
      [] t \in {"STATS", "stats"} -> "STATS"
      [] t \in {"QUIT", "quit"} -> "QUIT"
      [] OTHER -> "?"

\* The number of tokens the protocol gives each command.
Arity(cmd) ==
    CASE cmd = "PUT" -> 4
      [] cmd \in {"GET", "DEL"} -> 3
      [] cmd \in {"STATS", "QUIT"} -> 2

\* C7: a line with the right version whose command is PUT, GET, DEL, STATS
\* or QUIT and whose number of tokens is not the command's (4, 3, 3, 2, 2),
\* extra tokens included, is answered `400 BAD_REQUEST`, changes neither
\* the store nor a command counter and leaves the connection open.
C7_ExactArity ==
    [][\A c \in Conns :
         (/\ ReadStep(c)
          /\ Len(ReadToks(c)) >= 2
          /\ ReadToks(c)[1] = "KV/1.0"
          /\ CmdName(ReadToks(c)[2]) # "?"
          /\ Len(ReadToks(c)) # Arity(CmdName(ReadToks(c)[2])))
         => Refused(c, Resp("400 BAD_REQUEST"))]_vars

\* The handler of c has left the loop: it runs its deferred function or
\* has closed the socket.
Terminated(c) == pc[c] \in {"defer", "closed"}

\* C8: QUIT is answered `200 OK bye` and the handler leaves the loop for
\* good: from then on it only closes the socket; it reads no line of its
\* connection, writes nothing to it, and (with no other connection open)
\* the store and req_count stay as they are.
C8_Quit ==
    [][\A c \in Conns :
         /\ (/\ ReadStep(c)
             /\ Len(ReadToks(c)) = 2
             /\ ReadToks(c)[1] = "KV/1.0"
             /\ CmdName(ReadToks(c)[2]) = "QUIT")
            => /\ Answers(c) /\ Answer(c) = RespVal("bye")
               /\ pc'[c] = "defer"
         /\ Terminated(c)
            => /\ pc'[c] \in {pc[c], "closed"}
               /\ out'[c] = out[c]
               /\ reqs'[c] = reqs[c]
               /\ Len(inbuf'[c]) >= Len(inbuf[c])
               /\ (\A d \in Conns \ {c} : pc[d] = "unborn")
                    => data' = data /\ stats'.ReqCount = stats.ReqCount
      ]_vars

\* C8, reached: QUIT was answered `200 OK bye`, the socket is closed, and
\* a line sent behind the QUIT is left unread; req_count counts the QUIT
\* alone.
C8_Witness ==
    /\ reqs[1] = <<<<"KV/1.0", "QUIT">>>>
    /\ out[1] = <<Bye>>
    /\ pc[1] = "closed"
    /\ inbuf[1] = <<MkLine(PutToks("k1", "v1"))>>
    /\ stats.ReqCount = 1
    /\ Size(data) = 0

\* At most one handler holds store.mu for writing, and then none for reading.
MutexInv == Cardinality(mu.w) <= 1 /\ (mu.w # {} => mu.r = {})

\* C9: the store's operations are linearizable.  Writers exclude each
\* other and every reader; each operation takes effect in one step under
\* the lock: the read of a GET returns the entry the map holds at that
\* step (what a PUT of the same key under way has written, or what was
\* there before, never anything else), the write of a PUT and the delete
\* of a DEL change that key alone, and size reports the number of keys the
\* map holds at that step.
C9_Linearizable ==
    /\ []MutexInv
    /\ [][\A c \in Conns :
            /\ Leaves(c, "getRead") =>
                 IF data[Key(c)] = Absent
                 THEN pc'[c] = "read" /\ Answer(c) = NotFound
                 ELSE pc'[c] = "getIncr" /\ val'[c] = data[Key(c)]
            /\ Leaves(c, "putWrite") =>
                 data' = [data EXCEPT ![Key(c)] = Value(c)]
            /\ Leaves(c, "delWrite") =>
                 data' \in {data, [data EXCEPT ![Key(c)] = Absent]}
            /\ Leaves(c, "ssSize") =>
                 Answer(c).st.keys = Size(data)
       ]_vars

\* C9, reached: a PUT(k, v) holds the write lock, its write still to come,
\* while the GET(k) of another connection waits for the read lock.
C9_Witness ==
    \E c, d \in Conns :
        /\ pc[c] = "putWrite" /\ pc[d] = "getRLock"
        /\ Key(c) = Key(d)
        /\ mu.w = {c} /\ mu.r = {}

\* Every position (c, i) of a request of command cmd counted so far.
ReqsOf(cmd) ==
    {<<c, i>> \in Conns \X (1..MaxLines) :
        i <= Len(reqs[c]) /\ reqs[c][i][2] = cmd}

\* The request at such a position has been answered.
Answered(p) == p[2] <= Len(out[p[1]])

\* The PUTs counted so far are to pairwise distinct keys, and no DEL was.
DistinctPuts ==
    /\ ReqsOf("DEL") = {}
    /\ \A p, q \in ReqsOf("PUT") :
         p # q => reqs[p[1]][p[2]][3] # reqs[q[1]][q[2]][3]

\* C10: PUTs to pairwise distinct keys not yet in the store, from any
\* connections and however interleaved, all succeed: each is answered
\* `201 CREATED`; once answered its key holds its value (none is lost or
\* overwritten by another), so that every GET hit of the key returns that
\* value and a GET of the key sent after it on the same connection hits;
\* and the store holds one key for each PUT that has written.
C10_DistinctPuts ==
    DistinctPuts =>
      /\ \A p \in ReqsOf("PUT") :
           LET r == reqs[p[1]][p[2]] IN
           /\ Answered(p) =>
                /\ out[p[1]][p[2]] = Created
                /\ data[r[3]] = r[4]
           /\ \A g \in ReqsOf("GET") :
                (Answered(g) /\ reqs[g[1]][g[2]][3] = r[3]) =>
                   /\ out[g[1]][g[2]] \in {NotFound, RespVal(r[4])}
                   /\ (g[1] = p[1] /\ g[2] > p[2]) => out[g[1]][g[2]] = RespVal(r[4])
      /\ Size(data) =
           Cardinality({p \in ReqsOf("PUT") : Answered(p) \/ pc[p[1]] = "putIncr"})

\* C10, reached: the PUTs of two connections, to two keys not in the store,
\* are under way at once; both have written and both are about to be
\* answered 201, and the store holds both values.
C10_Witness ==
    \E c, d \in Conns :
        /\ c # d
        /\ DistinctPuts
        /\ pc[c] = "putIncr" /\ pc[d] = "putIncr"
        /\ found[c] /\ found[d]
        /\ Key(c) # Key(d)
        /\ data[Key(c)] = Value(c) /\ data[Key(d)] = Value(d)
        /\ Size(data) = 2

\* C11: a write failure ends the handler.  Once a response write on a
\* connection has failed, no later line of that connection is executed:
\* none is counted in req_count and none starts a command on the store;
\* the handler is left with closing the socket.
C11_WriteFailureEnds ==
    [][\A c \in Conns :
         wfail[c] =>
           /\ reqs'[c] = reqs[c]
           /\ pc'[c] \in {pc[c], "defer", "closed"}
      ]_vars

\* A line that is empty once its trailing CR and LF are stripped.
IsBlank(l) == \A i \in 1..Len(l) : l[i] \in {"\r", "\n"}

RECURSIVE TotalOut(_)
\* The number of response lines written so far, to the connections 1..n.
TotalOut(n) == IF n = 0 THEN 0 ELSE Len(out[n]) + TotalOut(n - 1)

\* Every line counted on a connection has its one response, but for the
\* line under way; with no request under way anywhere, req_count is the
\* number of response lines written.
OneResponseEach ==
    /\ \A c \in Conns :
         /\ Len(out[c]) <= Len(reqs[c])
         /\ Len(reqs[c]) <= Len(out[c]) + 1
         /\ pc[c] \in IdlePcs => Len(reqs[c]) = Len(out[c])
    /\ (\A c \in Conns : pc[c] \in IdlePcs) => stats.ReqCount = TotalOut(MaxConns)

\* C12: a handler takes the lines of its connection one at a time, in the
\* order they arrived, and only when the line before has its response.  A
\* line that is not blank adds exactly 1 to req_count and gets exactly one
\* response line; a blank line gets none and changes no counter and no
\* store entry.  Hence, with no request under way, req_count equals the
\* number of response lines written over all connections.
C12_OneLineOneResponse ==
    /\ []OneResponseEach
    /\ [][/\ \A c \in Conns :
              /\ Len(inbuf'[c]) < Len(inbuf[c]) =>
                   /\ pc[c] = "read"
                   /\ Len(out[c]) = Len(reqs[c])
                   /\ inbuf'[c] = Tail(inbuf[c])
                   /\ IF IsBlank(Head(inbuf[c]))
                      THEN /\ out' = out /\ stats' = stats /\ data' = data
                           /\ reqs' = reqs /\ pc' = pc
                      ELSE /\ stats'.ReqCount = stats.ReqCount + 1
                           /\ reqs'[c] = Append(reqs[c], WireTokens(Head(inbuf[c])))
              /\ \/ out'[c] = out[c]
                 \/ Answers(c) /\ SubSeq(out'[c], 1, Len(out[c])) = out[c]
              /\ reqs'[c] # reqs[c] => Len(inbuf'[c]) < Len(inbuf[c])
          /\ stats'.ReqCount # stats.ReqCount =>
                \E c \in Conns : reqs'[c] # reqs[c]
       ]_vars

\* C12, reached: three lines were sent and read, one of them blank; the
\* other two, one on each connection, were counted and answered, and with
\* both handlers back at the read req_count is 2.
C12_Witness ==
    /\ nsent = 3
    /\ \A c \in Conns : inbuf[c] = <<>> /\ pc[c] = "read" /\ Len(reqs[c]) = 1
    /\ TotalOut(MaxConns) = 2
    /\ stats.ReqCount = 2

\* The positions of a handler inside a GET and inside STATS.
GetPcs == {"getRLock", "getRead", "getIncr"}

StatsPcs == {"ssLock", "ssRead", "ssRLock", "ssSize"}

\* The counters with one of them one higher.
Plus1(field) == [stats EXCEPT ![field] = @ + 1]

\* C13: the command counters move only on the stated outcomes.  Reading a
\* line moves req_count alone.  A PUT that is executed always goes on to
\* add 1 to put_count, created or overwritten; a GET adds 1 to get_count
\* only on a hit and a DEL adds 1 to del_count only on a hit; a GET or DEL
\* answered `404 NOT_FOUND` leaves every counter and the store as they
\* are; no step of a GET or of STATS changes the store; and the three
\* counters move in no other step.
C13_CountersOnOutcomes ==
    [][/\ \A c \in Conns :
            /\ ReadStep(c) => stats' \in {stats, Plus1("ReqCount")} /\ data' = data
            /\ Leaves(c, "putLock") => stats' = stats
            /\ Leaves(c, "putWrite") => stats' = stats /\ pc'[c] = "putIncr"
            /\ Leaves(c, "putIncr") =>
                 /\ stats' = Plus1("PutCount")
                 /\ Answers(c) /\ Answer(c) \in {Resp("201 CREATED"), Resp("200 OK")}
            /\ Leaves(c, "getRead") =>
                 /\ stats' = stats
                 /\ pc'[c] = "read" <=> (Answers(c) /\ Answer(c) = Resp("404 NOT_FOUND"))
            /\ Leaves(c, "getIncr") =>
                 /\ stats' = Plus1("GetCount")
                 /\ Answers(c) /\ Answer(c).status = "200 OK"
            /\ Leaves(c, "delLock") => stats' = stats /\ data' = data
            /\ Leaves(c, "delWrite") =>
                 /\ stats' = stats
                 /\ pc'[c] = "read" <=> (Answers(c) /\ Answer(c) = Resp("404 NOT_FOUND"))
                 /\ pc'[c] = "read" => data' = data
            /\ Leaves(c, "delIncr") =>
                 /\ stats' = Plus1("DelCount")
                 /\ Answers(c) /\ Answer(c) = Resp("204 NO_CONTENT")
            /\ (pc[c] \in GetPcs /\ pc'[c] # pc[c]) => data' = data
            /\ (pc[c] \in StatsPcs /\ pc'[c] # pc[c]) => data' = data /\ stats' = stats
       /\ stats'.PutCount # stats.PutCount => \E c \in Conns : Leaves(c, "putIncr")
       /\ stats'.GetCount # stats.GetCount => \E c \in Conns : Leaves(c, "getIncr")
       /\ stats'.DelCount # stats.DelCount => \E c \in Conns : Leaves(c, "delIncr")
      ]_vars

\* C13, reached: one connection was answered 404 to DEL(k), 201 to
\* PUT(k, v) and the value to GET(k); req_count is 3, put_count and
\* get_count are 1 and del_count is still 0.
C13_Witness ==
    \E c \in Conns : \E k \in Keys : \E v \in Vals :
        /\ reqs[c] = <<DelToks(k), PutToks(k, v), GetToks(k)>>
        /\ out[c] = <<NotFound, Created, RespVal(v)>>
        /\ stats.ReqCount = 3
        /\ stats.PutCount = 1 /\ stats.GetCount = 1 /\ stats.DelCount = 0

\* The handlers that have registered (past both increments of handleConn)
\* and have not yet terminated (their deferred function has not run).
Registered == {c \in Conns : pc[c] \notin {"unborn", "incTotal", "incActive", "closed"}}

\* active_conns lies between 0 and total_conns and counts the registered
\* handlers; it is 0 once every handler spawned has terminated.
ActiveCounts ==
    /\ 0 <= stats.ActiveConns
    /\ stats.ActiveConns <= stats.TotalConns
    /\ stats.ActiveConns = Cardinality(Registered)
    /\ (\A c \in Conns : pc[c] \in {"unborn", "closed"}) => stats.ActiveConns = 0

\* C14: active_conns is decremented exactly once when a handler
\* terminates, whatever ended it (read error, peer close, QUIT): a handler
\* terminates only through its deferred function, which takes 1 off
\* active_conns, and stays terminated; nothing else lowers active_conns.
\* So 0 <= active_conns <= total_conns, active_conns is the number of
\* handlers registered and not yet terminated, and it is 0 once every
\* accepted connection's handler has terminated.
C14_ActiveConns ==
    /\ []ActiveCounts
    /\ [][/\ \A c \in Conns :
              /\ (pc'[c] = "closed" /\ pc[c] # "closed") =>
                   /\ pc[c] = "defer"
                   /\ stats'.ActiveConns = stats.ActiveConns - 1
              /\ pc[c] = "closed" => pc'[c] = "closed"
          /\ stats'.ActiveConns < stats.ActiveConns =>
                \E c \in Conns : Leaves(c, "defer")
       ]_vars

\* C14, reached: two handlers have terminated, one on QUIT and one on the
\* read error after its peer closed; total_conns is 2 and active_conns 0.
C14_Witness ==
    \E c, d \in Conns :
        /\ pc[c] = "closed" /\ pc[d] = "closed"
        /\ out[c] # <<>> /\ Last(out[c]) = Bye /\ ~peerClosed[c]
        /\ peerClosed[d] /\ Bye \notin {out[d][i] : i \in 1..Len(out[d])}
        /\ stats.TotalConns = 2
        /\ stats.ActiveConns = 0

\* The connections the listener has accepted; after each it is back at
\* Accept, the handler spawned.
Accepted == {c \in Conns : pc[c] # "unborn"}

\* C15: total_conns and active_conns are incremented before the handler
\* is spawned: whenever the listener has accepted n connections and is
\* back at accepting, total_conns is n.
C15_CountedBeforeSpawn == stats.TotalConns = Cardinality(Accepted)

\* The counters that only grow.
GrowingCounters == {"TotalConns", "ReqCount", "PutCount", "GetCount", "DelCount"}

\* C16: total_conns, req_count, put_count, get_count and del_count never
\* go down, in any step of any execution: none is decremented or reset.
\* active_conns is the only counter that goes down.
C16_Monotonic ==
    [][\A f \in GrowingCounters : stats'[f] >= stats[f]]_vars

\* C16, reached: every growing counter has moved (two connections, three
\* requests: a PUT, a GET hit, a DEL hit) and active_conns has gone down:
\* one of the two handlers has terminated.
C16_Witness ==
    /\ stats.TotalConns = 2
    /\ stats.ReqCount = 3
    /\ stats.PutCount = 1 /\ stats.GetCount = 1 /\ stats.DelCount = 1
    /\ stats.ActiveConns = 1
    /\ \E c \in Conns : pc[c] = "closed"

\* C17: the parse checks come in a fixed order.  A line that is not blank
\* and has fewer than 2 tokens is answered `400 BAD_REQUEST`, even when
\* its one token is a wrong version; a line of 2 tokens or more with a
\* wrong version is answered `426 UPGRADE_REQUIRED`, even when its command
\* is unknown or its arity wrong; only with the right version do the
\* command name and the arity count: an unknown command, and a GET, DEL
\* or STATS with the wrong number of tokens, are answered 400.  Each of
\* these lines adds 1 to req_count.
C17_ParseOrder ==
    [][\A c \in Conns :
         (ReadStep(c) /\ ~IsBlank(Head(inbuf[c]))) =>
           LET t == ReadToks(c) IN
           /\ stats'.ReqCount = stats.ReqCount + 1
           /\ Len(t) < 2 => Refused(c, Resp("400 BAD_REQUEST"))
           /\ (Len(t) >= 2 /\ t[1] # "KV/1.0") =>
                Refused(c, Resp("426 UPGRADE_REQUIRED"))
           /\ (Len(t) >= 2 /\ t[1] = "KV/1.0" /\ CmdName(t[2]) = "?") =>
                Refused(c, Resp("400 BAD_REQUEST"))
           /\ (/\ Len(t) >= 2 /\ t[1] = "KV/1.0"
               /\ CmdName(t[2]) \in {"GET", "DEL", "STATS"}
               /\ Len(t) # Arity(CmdName(t[2]))) =>
                Refused(c, Resp("400 BAD_REQUEST"))
      ]_vars

\* C17, reached: the line `KV/0.9` was answered 400 and the line
\* `KV/0.9 PUT k1` (wrong version, wrong arity) 426; req_count is 2.
C17_Witness ==
    /\ reqs[1] = <<<<"KV/0.9">>, <<"KV/0.9", "PUT", "k1">>>>
    /\ out[1] = <<BadRequest, UpgradeRequired>>
    /\ stats.ReqCount = 2

RECURSIVE TotalReqs(_)
\* The number of lines counted so far, on the connections 1..n.
TotalReqs(n) == IF n = 0 THEN 0 ELSE Len(reqs[n]) + TotalReqs(n - 1)

\* The six counters as a STATS reply names them.
Counters ==
    [total_conns |-> stats.TotalConns, active_conns |-> stats.ActiveConns,
     req_count |-> stats.ReqCount, put_count |-> stats.PutCount,
     get_count |-> stats.GetCount, del_count |-> stats.DelCount]

\* The counters snapshotStats reads first, and those it reads next.
FirstRead == {"total_conns", "active_conns", "req_count"}

NextRead == {"put_count", "get_count", "del_count"}

\* While a snapshot is under way its handler alone holds statsMu, every
\* counter it has read so far is still the counter's value, and the
\* req_count it has read counts every line read so far, the STATS
\* request among them.
SnapshotHolds ==
    \A c \in Conns :
        /\ pc[c] \in {"ssRead", "ssRLock", "ssSize"} =>
             /\ statsMu = {c}
             /\ \A f \in FirstRead : snap[c][f] = Counters[f]
             /\ snap[c].req_count = TotalReqs(MaxConns)
             /\ Last(reqs[c]) = <<"KV/1.0", "STATS">>
        /\ pc[c] \in {"ssRLock", "ssSize"} =>
             \A f \in NextRead : snap[c][f] = Counters[f]

\* C18: a STATS snapshot reads the six counters in one critical section.
\* No increment by another handler falls between the reads, so the
\* total_conns, active_conns, req_count, put_count, get_count and
\* del_count of one reply are the values the counters hold together at
\* one instant, the instant the reply is written among them; and that
\* req_count includes the STATS request itself.
C18_SnapshotAtomic ==
    /\ []SnapshotHolds
    /\ [][\A c \in Conns :
            Leaves(c, "ssSize") =>
              /\ Answers(c)
              /\ \A f \in FirstRead \cup NextRead : Answer(c).st[f] = Counters[f]
              /\ Answer(c).st.req_count >= 1
       ]_vars

\* C18, reached: a snapshot has read all six counters and holds statsMu,
\* its size() still to come, while the PUT of another connection has
\* written the store and waits for statsMu to count itself.
C18_Witness ==
    \E c, d \in Conns :
        /\ pc[c] = "ssRLock" /\ statsMu = {c}
        /\ pc[d] = "putIncr"
        /\ snap[c].put_count = stats.PutCount
        /\ snap[c].req_count = 2

\* The positions at which a handler holds store.mu: it goes on from each
\* without taking a lock.
HoldsStoreLock == {"putWrite", "getRead", "delWrite", "ssSize"}

\* A handler holding the store lock is at a position that waits for no
\* lock; the one handler holding both locks is inside snapshotStats, which
\* took statsMu first.
LockOrder ==
    \A c \in Conns :
        /\ c \in mu.w \cup mu.r => pc[c] \in HoldsStoreLock
        /\ (c \in mu.w \cup mu.r /\ c \in statsMu) => pc[c] = "ssSize"

\* C19: the two locks never deadlock.  The store lock is taken while
\* holding statsMu only inside snapshotStats, and no handler waits for
\* statsMu while holding the store lock; so, however the handlers of
\* PUT, GET, DEL and STATS interleave, every handler with a request under
\* way completes it and is back at reading its connection.
C19_NoDeadlock ==
    /\ []LockOrder
    /\ \A c \in Conns : (pc[c] \notin IdlePcs) ~> (pc[c] = "read")

\* C19, reached: each of two handlers holds one lock and the other is
\* wanted: a snapshot holds statsMu and waits for the store's read lock,
\* which the PUT of another connection holds for writing.
C19_Witness ==
    \E c, d \in Conns :
        /\ pc[c] = "ssRLock" /\ statsMu = {c}
        /\ pc[d] = "putWrite" /\ mu.w = {d}

\* The PUTs that have written the store and are not yet counted.
UncountedPuts == {d \in Conns : pc[d] = "putIncr"}

====
